---- MODULE Spec2Model ----
(***************************************************************************)
(* Model of the ETA service of main.ts: the free-text query parser         *)
(* (parseFreeformQuery) and the request handler (handleEta) with its       *)
(* collaborators (Samsara vehicle directory and GPS stats, Nominatim       *)
(* geocoder, OSRM router).                                                 *)
(*                                                                         *)
(* Representation:                                                         *)
(*  - an optional string is a string, Undef standing for undefined; the    *)
(*    empty string "" is a real (falsy) value;                             *)
(*  - a free-text query is the sequence of its chunks: words (maximal runs *)
(*    of non-whitespace characters) and Blank (a run of extra whitespace); *)
(*  - indexes are 0-based as in the source (At(s, i) reads s[i]);          *)
(*  - distanceKm is held in units of 0.1 km, distanceMiles in units of     *)
(*    0.1 mile, a Date in milliseconds, the router's raw duration in units *)
(*    of 0.1 s and its raw distance in metres.                             *)
(***************************************************************************)
EXTENDS Integers, Sequences, FiniteSets, TLC

\* ---------------------------------------------------------------- bounds

\* Longest free-text query (in chunks) the parser specification enumerates.
MaxChunks == 5
\* Longest explicit destinations list of a request.
MaxStops == 2
\* Most pages the vehicle directory serves for one lookup.
MaxPages == 2
\* Longest list of points the route link builder is applied to on its own.
MaxLinkStops == 3

\* ---------------------------------------------------------------- values

Undef == "<undefined>"

\* JavaScript truthiness of an optional string (if (s), a && b, !s).
Truthy(s) == s # Undef /\ s # ""

\* a ?? b
Coalesce(a, b) == IF a # Undef THEN a ELSE b

Blank == " "

At(s, i) == s[i + 1]

\* Array.prototype.slice(from, to) with 0 <= from, to <= length.
slice(s, from, to) == IF from >= to THEN << >> ELSE SubSeq(s, from + 1, to)

\* Array.prototype.findIndex, given for each element whether it passes the
\* test: the least 0-based index of an element that passes, else -1.
findIndex(passes) ==
    IF \E i \in 1..Len(passes) : passes[i]
    THEN (CHOOSE i \in 1..Len(passes) :
              passes[i] /\ \A j \in 1..(i - 1) : ~passes[j]) - 1
    ELSE -1

\* The sum of a sequence of numbers.
RECURSIVE Sum(_)
Sum(xs) == IF Len(xs) = 0 THEN 0 ELSE xs[1] + Sum(Tail(xs))

\* Array.prototype.join(" ")
RECURSIVE join(_)
join(s) ==
    IF Len(s) = 0 THEN ""
    ELSE IF Len(s) = 1 THEN s[1]
    ELSE s[1] \o " " \o join(Tail(s))

\* ------------------------------------------------------- parseFreeformQuery

\* /\d/.test(t)
HasDigit(t) == t \in {"5051", "A1"}

\* String.prototype.toLowerCase on the model's words.
toLowerCase(t) ==
    CASE t = "TO" -> "to"
      [] t = "A1" -> "a1"
      [] t = "Dallas" -> "dallas"
      [] t = "TX" -> "tx"
      [] t = "ETA" -> "eta"
      [] t = "Chicago" -> "chicago"
      [] t = "IL" -> "il"
      [] OTHER -> t

IsTo(t) == toLowerCase(t) = "to"

\* q.trim().split(/\s+/).filter((t) => t.length > 0)
Tokenize(q) == SelectSeq(q, LAMBDA c : c # Blank)

\* payload.query.trim().length > 0 (on a query that is present)
NonBlank(q) == \E i \in 1..Len(q) : q[i] # Blank

NullParsed ==
    [mode |-> "null", truckNumber |-> Undef, originCity |-> Undef,
     originState |-> Undef, city |-> Undef, state |-> Undef]

\* The destination tokens of the truck branch.
TruckDestTokens(tokens, toIdx, truckIdx) ==
    IF toIdx >= 0 /\ toIdx < Len(tokens) - 1
    THEN slice(tokens, toIdx + 1, Len(tokens))
    ELSE slice(tokens, truckIdx + 1, Len(tokens))

\* A variant of CityBranchTaken that accepts a one-token origin.
CityBranchTakenLoose(tokens, toIdx) ==
    /\ toIdx > 0
    /\ toIdx < Len(tokens) - 1
    /\ Len(slice(tokens, 0, toIdx)) >= 1
    /\ Len(slice(tokens, toIdx + 1, Len(tokens))) >= 2

\* The two nested conditions of the city-to-city branch.
CityBranchTaken(tokens, toIdx) ==
    /\ toIdx > 0
    /\ toIdx < Len(tokens) - 1
    /\ Len(slice(tokens, 0, toIdx)) >= 2
    /\ Len(slice(tokens, toIdx + 1, Len(tokens))) >= 2

parseFreeformQuery(q) ==
    LET tokens == Tokenize(q)
        n == Len(tokens)
        toIdx == findIndex([i \in 1..Len(tokens) |-> IsTo(tokens[i])])
        truckIdx == findIndex([i \in 1..Len(tokens) |-> HasDigit(tokens[i])])
    IN  IF n < 2 THEN NullParsed
        ELSE IF truckIdx >= 0
        THEN LET destTokens == TruckDestTokens(tokens, toIdx, truckIdx)
                 m == Len(destTokens)
             IN  IF m >= 2
                 THEN [NullParsed EXCEPT !.mode = "truck",
                                         !.truckNumber = At(tokens, truckIdx),
                                         !.city = join(slice(destTokens, 0, m - 1)),
                                         !.state = At(destTokens, m - 1)]
                 ELSE [NullParsed EXCEPT !.mode = "truck",
                                         !.truckNumber = At(tokens, truckIdx)]
        ELSE IF CityBranchTaken(tokens, toIdx)
        THEN LET originTokens == slice(tokens, 0, toIdx)
                 destTokens == slice(tokens, toIdx + 1, n)
                 o == Len(originTokens)
                 m == Len(destTokens)
             IN  [NullParsed EXCEPT !.mode = "city",
                                    !.originCity = join(slice(originTokens, 0, o - 1)),
                                    !.originState = At(originTokens, o - 1),
                                    !.city = join(slice(destTokens, 0, m - 1)),
                                    !.state = At(destTokens, m - 1)]
        ELSE NullParsed

\* ------------------------------------------------------------ pure helpers

\* Math.round((km * 0.621371) * 10) / 10, on km in units of 0.1 km, giving
\* miles in units of 0.1 mile: Math.round(x) is floor(x + 1/2).
kmToMiles(km) == ((km * 621371) + 500000) \div 1000000

\* Math.round(route.duration ?? 0) on a raw duration in units of 0.1 s.
RoundSeconds(raw) == (raw + 5) \div 10

\* (route.distance ?? 0) / 1000 on a raw distance in metres (a multiple of 100),
\* giving km in units of 0.1 km.
MetresToKm(raw) == raw \div 100

\* formatDuration: the parts that are joined by " ".
formatDuration(sec) ==
    LET hours == sec \div 3600
        minutes == (sec % 3600) \div 60
    IN  IF hours > 0
        THEN << [n |-> hours, unit |-> "h"], [n |-> minutes, unit |-> "m"] >>
        ELSE << [n |-> minutes, unit |-> "m"] >>

\* Date.prototype.toISOString of a Date given in milliseconds.
toISOString(ms) == [iso |-> ms]

\* A text is the sequence of its pieces: a number as printed, or one character.
\* `${p.lat},${p.lng}`
LatLng(p) == << ToString(p.lat), ",", ToString(p.lng) >>

\* texts.join(sep)
RECURSIVE joinTexts(_, _)
joinTexts(texts, sep) ==
    IF Len(texts) = 0 THEN << >>
    ELSE IF Len(texts) = 1 THEN texts[1]
    ELSE texts[1] \o << sep >> \o joinTexts(Tail(texts), sep)

\* encodeURIComponent on one piece: digits, "-" and "." are left as they are,
\* "," and "|" are percent-encoded.
EncodePiece(c) ==
    CASE c = "," -> "%2C"
      [] c = "|" -> "%7C"
      [] OTHER -> c

encodeURIComponent(text) == [i \in 1..Len(text) |-> EncodePiece(text[i])]

\* One name=value pair of a URL's query string, the value as written in the URL.
QueryParam(name, value) == [name |-> name, value |-> value]

\* https://www.google.com/maps/search/?api=1&query=<lat>,<lng>
buildPointMapsUrl(point) ==
    [path |-> "https://www.google.com/maps/search/",
     params |-> << QueryParam("api", << "1" >>),
                   QueryParam("query", LatLng(point)) >>]

\* https://www.google.com/maps/dir/?api=1&origin=..&destination=..&travelmode=driving
buildDirectionsUrl(origin, dest) ==
    LET originParam == encodeURIComponent(LatLng(origin))
        destParam == encodeURIComponent(LatLng(dest))
    IN  [path |-> "https://www.google.com/maps/dir/",
         params |-> << QueryParam("api", << "1" >>),
                       QueryParam("origin", originParam),
                       QueryParam("destination", destParam),
                       QueryParam("travelmode", << "driving" >>) >>]

\* A variant of buildMultiStopDirectionsUrl that ends the route at the first stop
\* and passes through the others.
buildMultiStopDirectionsUrlFirstDest(origin, points) ==
    IF Len(points) = 0 THEN buildDirectionsUrl(origin, origin)
    ELSE LET firstDest == At(points, 0)
             waypoints == slice(points, 1, Len(points))
             url == buildDirectionsUrl(origin, firstDest)
         IN  IF Len(waypoints) > 0
             THEN LET wp == joinTexts([i \in 1..Len(waypoints) |-> LatLng(waypoints[i])], "|")
                  IN  [url EXCEPT !.params =
                           Append(@, QueryParam("waypoints", encodeURIComponent(wp)))]
             ELSE url

buildMultiStopDirectionsUrl(origin, points) ==
    IF Len(points) = 0 THEN buildDirectionsUrl(origin, origin)
    ELSE LET firstDest == At(points, Len(points) - 1)
             waypoints == slice(points, 0, Len(points) - 1)
             originParam == encodeURIComponent(LatLng(origin))
             destParam == encodeURIComponent(LatLng(firstDest))
             url == [path |-> "https://www.google.com/maps/dir/",
                     params |-> << QueryParam("api", << "1" >>),
                                   QueryParam("origin", originParam),
                                   QueryParam("destination", destParam),
                                   QueryParam("travelmode", << "driving" >>) >>]
         IN  IF Len(waypoints) > 0
             THEN LET wp == joinTexts([i \in 1..Len(waypoints) |-> LatLng(waypoints[i])], "|")
                  IN  [url EXCEPT !.params =
                           Append(@, QueryParam("waypoints", encodeURIComponent(wp)))]
             ELSE url

\* ------------------------------------------------------------ collaborators

NoPoint == [lat |-> 0, lng |-> 0]

\* The geocoder's first result for a query text (when it has one).
GeoTable(text) ==
    CASE text = "Dallas, TX, USA" -> [lat |-> 32, lng |-> -96]
      [] text = "Austin, TX, USA" -> [lat |-> 30, lng |-> -97]
      [] text = "Chicago, IL, USA" -> [lat |-> 41, lng |-> -87]
      [] text = "1 Main St, Waco TX" -> [lat |-> 31, lng |-> -98]
      [] OTHER -> [lat |-> 39, lng |-> -95]

\* What one call of geocode can do: return the first result, return null
\* (an empty result list), or throw (a non-2xx answer).
GeoOutcomes == {"ok", "none", "throw"}

\* The vehicles the directory may list.
Vehicles ==
    [v1 |-> [id |-> "v1", name |-> "5051"],
     v2 |-> [id |-> "v2", name |-> " a1 "],
     v3 |-> [id |-> "v3", name |-> "A1"],
     v4 |-> [id |-> "v4", name |-> "77"],
     v5 |-> [id |-> "v5", name |-> Undef]]

VehicleLists ==
    { << >>,
      << Vehicles.v4, Vehicles.v5 >>,
      << Vehicles.v4, Vehicles.v2, Vehicles.v3, Vehicles.v1 >> }

\* data.pagination of one page.
Paginations ==
    { [hasNextPage |-> FALSE, endCursor |-> Undef],
      [hasNextPage |-> TRUE, endCursor |-> "cursor"],
      [hasNextPage |-> TRUE, endCursor |-> Undef] }

\* What one fetch of /fleet/vehicles can do: throw (a non-2xx answer) or a page.
PageOutcomes ==
    { [throws |-> TRUE, vehicles |-> << >>, pagination |-> [hasNextPage |-> FALSE, endCursor |-> Undef]] }
    \cup { [throws |-> FALSE, vehicles |-> vs, pagination |-> pg] :
             vs \in VehicleLists, pg \in Paginations }

\* A page that announces a further page.
HasMore(page) == page.pagination.hasNextPage /\ Truthy(page.pagination.endCursor)

\* What the stats call can yield for the vehicle: throw, no gps entry, or a GpsStat.
GpsOutcomes ==
    { [kind |-> "throw", latitude |-> 0, longitude |-> 0, formattedLocation |-> Undef],
      [kind |-> "none", latitude |-> 0, longitude |-> 0, formattedLocation |-> Undef],
      [kind |-> "gps", latitude |-> 35, longitude |-> -101, formattedLocation |-> "Amarillo, TX"],
      [kind |-> "gps", latitude |-> 36, longitude |-> -97, formattedLocation |-> Undef] }

\* What one call of the router can do: throw (a non-2xx answer), answer without
\* a route, or answer with a route (distance in metres, duration in 0.1 s).
RouteOutcomes ==
    { [kind |-> "throw", distance |-> 0, duration |-> 0],
      [kind |-> "noroute", distance |-> 0, duration |-> 0],
      [kind |-> "route", distance |-> 700, duration |-> 6005],
      [kind |-> "route", distance |-> 100000, duration |-> 35996] }

\* (v.name ?? "").trim().toLowerCase() and truckNumber.trim().toLowerCase()
NormName(name) ==
    CASE name = Undef -> ""
      [] name = " a1 " -> "a1"
      [] name = "A1" -> "a1"
      [] name = " " -> ""
      [] OTHER -> name

\* ------------------------------------------------------------------ requests

StopInputs ==
    { [address |-> "1 Main St, Waco TX", city |-> Undef, state |-> Undef],
      [address |-> Undef, city |-> "Dallas", state |-> "TX"],
      [address |-> "1 Main St, Waco TX", city |-> "Austin", state |-> "TX"],
      [address |-> Undef, city |-> "Dallas", state |-> Undef] }

\* payload.destinations: not an array (absent), or an array of stops.
DestinationLists ==
    { [isArray |-> FALSE, items |-> << >>] }
    \cup { [isArray |-> TRUE, items |-> items] :
             items \in UNION { [1..n -> StopInputs] : n \in 0..MaxStops } }

\* payload.query: absent or empty (<< >>), or a text.
HandlerQueries ==
    { << >>,
      << "hello" >>,
      << "ETA", "5051" >>,
      << "ETA", "5051", "to", "Dallas", "TX" >>,
      << "Chicago", "IL", "to", "Dallas", "TX" >> }

NoPayload ==
    [query |-> << >>, truckNumber |-> Undef, city |-> Undef, state |-> Undef,
     originCity |-> Undef, originState |-> Undef,
     destinations |-> [isArray |-> FALSE, items |-> << >>]]

Payloads ==
    { [query |-> qq, truckNumber |-> t, city |-> l[1], state |-> l[2],
       originCity |-> o[1], originState |-> o[2], destinations |-> d] :
        qq \in HandlerQueries,
        t \in {Undef, "", "A1"},
        l \in { <<Undef, Undef>>, <<"Austin", "TX">>, <<"Austin", "">> },
        o \in { <<Undef, Undef>>, <<"Chicago", "IL">>, <<"", "IL">> },
        d \in DestinationLists }

Requests ==
    { [method |-> "GET", jsonOk |-> TRUE, payload |-> NoPayload],
      [method |-> "POST", jsonOk |-> FALSE, payload |-> NoPayload] }
    \cup { [method |-> "POST", jsonOk |-> TRUE, payload |-> pl] : pl \in Payloads }

\* The queries the parser specification enumerates.
ParserChunks == {Blank, "to", "TO", "5051", "A1", "Dallas", "TX"}

ParserQueries == UNION { [1..n -> ParserChunks] : n \in 0..MaxChunks }

\* --------------------------------------------------------------------- state

VARIABLES
    token,                  \* SAMSARA_TOKEN
    req,                    \* the incoming request
    now,                    \* new Date() at line 403, in ms
    pc,                     \* where handleEta stands
    truckNumber, city, state, originCity, originState,   \* after the merge
    stops,
    mode, originPoint, originLabel, vehicleLocation, truckName,
    vehicle, after, pagesFetched,       \* findVehicleByTruckNumber
    stopGeos,
    legs, currentPoint, currentLabel, currentTime,
    totalDistanceKm, totalDurationSeconds,
    response,               \* the Response returned, once pc = "done"
    calls,                  \* the collaborator calls made so far, in order
    q, parsed, parseDone,   \* the parser applied on its own
    linkOrigin, linkStops, link, linkDone,  \* the route link builder applied on its own
    dirNumber, dirPages, dirFetched, dirResult  \* the vehicle lookup applied on its own

inputVars == << token, req, now >>
mergedVars == << truckNumber, city, state, originCity, originState, stops >>
originVars == << mode, originPoint, originLabel, vehicleLocation, truckName >>
lookupVars == << vehicle, after, pagesFetched >>
legVars == << legs, currentPoint, currentLabel, currentTime,
              totalDistanceKm, totalDurationSeconds >>
parseVars == << q, parsed, parseDone >>
linkVars == << linkOrigin, linkStops, link, linkDone >>
findVars == << dirNumber, dirPages, dirFetched, dirResult >>

vars == << inputVars, pc, mergedVars, originVars, lookupVars, stopGeos, legVars,
           response, calls, parseVars, linkVars, findVars >>

NoResponse == [status |-> 0, body |-> [error |-> Undef]]
NoVehicle == [id |-> Undef, name |-> Undef]
NoVehicleLocation ==
    [lat |-> 0, lng |-> 0, formattedAddress |-> Undef,
     mapsUrl |-> buildPointMapsUrl(NoPoint)]

\* The route link builder has not been applied on its own.
LinkIdle ==
    /\ linkOrigin = NoPoint /\ linkStops = << >>
    /\ link = buildPointMapsUrl(NoPoint) /\ linkDone = FALSE

\* What findVehicleByTruckNumber has come to: still in its loop, returned a
\* vehicle, returned null, or thrown.
FindRunning == [state |-> "running", vehicle |-> NoVehicle]

\* The vehicle lookup has not been applied on its own.
FindIdle ==
    /\ dirNumber = Undef /\ dirPages = << >>
    /\ dirFetched = 0 /\ dirResult = FindRunning

\* The handler's locals before handleEta assigns them.
LocalsInit ==
    /\ truckNumber = Undef /\ city = Undef /\ state = Undef
    /\ originCity = Undef /\ originState = Undef
    /\ stops = << >>
    /\ mode = Undef /\ originPoint = NoPoint /\ originLabel = Undef
    /\ vehicleLocation = NoVehicleLocation /\ truckName = Undef
    /\ vehicle = NoVehicle /\ after = Undef /\ pagesFetched = 0
    /\ stopGeos = << >>
    /\ legs = << >> /\ currentPoint = NoPoint /\ currentLabel = Undef
    /\ currentTime = 0 /\ totalDistanceKm = 0 /\ totalDurationSeconds = 0
    /\ response = NoResponse
    /\ calls = << >>

Init ==
    /\ token \in {Undef, "samsara_api_token"}
    /\ req \in Requests
    /\ now \in {1000000}
    /\ pc = "start"
    /\ LocalsInit
    /\ q = << >> /\ parsed = NullParsed /\ parseDone = FALSE
    /\ LinkIdle
    /\ FindIdle

\* ------------------------------------------------------- handleEta: pieces

ErrorBody(msg) == [error |-> msg]

\* The catch block's payload: { error: "Internal error", details: String(err) }.
InternalError(details) == [error |-> "Internal error", details |-> details]

Respond(status, body) ==
    /\ response' = [status |-> status, body |-> body]
    /\ pc' = "done"

Called(svc, k, out, detail) ==
    calls' = Append(calls, [svc |-> svc, k |-> k, out |-> out, detail |-> detail])

\* Lines 369-386: the structured fields, overridden by what the query parsed to.
MergeQuery(payload) ==
    LET base == [truckNumber |-> payload.truckNumber,
                 city |-> payload.city, state |-> payload.state,
                 originCity |-> payload.originCity,
                 originState |-> payload.originState]
        p == parseFreeformQuery(payload.query)
    IN  IF Len(payload.query) > 0 /\ NonBlank(payload.query)
        THEN IF p.mode = "truck"
             THEN [base EXCEPT !.truckNumber = p.truckNumber,
                               !.city = Coalesce(p.city, base.city),
                               !.state = Coalesce(p.state, base.state)]
             ELSE IF p.mode = "city"
             THEN [base EXCEPT !.originCity = p.originCity,
                               !.originState = p.originState,
                               !.city = Coalesce(p.city, base.city),
                               !.state = Coalesce(p.state, base.state)]
             ELSE base
        ELSE base

\* A variant of BuildStops that prefers the single city/state destination.
BuildStopsSingleFirst(payload, c, st) ==
    IF Truthy(c) /\ Truthy(st)
    THEN << [address |-> Undef, city |-> c, state |-> st] >>
    ELSE IF payload.destinations.isArray /\ Len(payload.destinations.items) > 0
    THEN payload.destinations.items
    ELSE << >>

\* Lines 389-394: the explicit list if it is a non-empty array, else the single
\* city/state stop if both are there, else nothing.
BuildStops(payload, c, st) ==
    IF payload.destinations.isArray /\ Len(payload.destinations.items) > 0
    THEN payload.destinations.items
    ELSE IF Truthy(c) /\ Truthy(st)
    THEN << [address |-> Undef, city |-> c, state |-> st] >>
    ELSE << >>

\* A variant of UseTruckPath that yields to a complete origin city/state.
UseTruckPathUnlessOrigin(tn, oc, os) == Truthy(tn) /\ ~(Truthy(oc) /\ Truthy(os))

\* Line 411: if (truckNumber)
UseTruckPath(tn, oc, os) == Truthy(tn)

\* A variant of FindVehicleStep that goes on to the next page when the page
\* with a match announces one.
FindVehicleStepKeepPaging(tn, page) ==
    LET idx == findIndex([i \in 1..Len(page.vehicles) |->
                             NormName(page.vehicles[i].name) = NormName(tn)])
    IN  IF page.throws
        THEN [out |-> "throw", vehicle |-> NoVehicle, after |-> Undef]
        ELSE IF page.pagination.hasNextPage /\ Truthy(page.pagination.endCursor)
        THEN [out |-> "more", vehicle |-> NoVehicle, after |-> page.pagination.endCursor]
        ELSE IF idx >= 0
        THEN [out |-> "ok",
              vehicle |-> [id |-> At(page.vehicles, idx).id,
                           name |-> Coalesce(At(page.vehicles, idx).name, tn)],
              after |-> Undef]
        ELSE [out |-> "none", vehicle |-> NoVehicle, after |-> Undef]

\* One iteration of findVehicleByTruckNumber's loop on the page fetched.
FindVehicleStep(tn, page) ==
    LET idx == findIndex([i \in 1..Len(page.vehicles) |->
                             NormName(page.vehicles[i].name) = NormName(tn)])
    IN  IF page.throws
        THEN [out |-> "throw", vehicle |-> NoVehicle, after |-> Undef]
        ELSE IF idx >= 0
        THEN [out |-> "ok",
              vehicle |-> [id |-> At(page.vehicles, idx).id,
                           name |-> Coalesce(At(page.vehicles, idx).name, tn)],
              after |-> Undef]
        ELSE IF ~page.pagination.hasNextPage
        THEN [out |-> "none", vehicle |-> NoVehicle, after |-> Undef]
        ELSE IF ~Truthy(page.pagination.endCursor)
        THEN [out |-> "none", vehicle |-> NoVehicle, after |-> page.pagination.endCursor]
        ELSE [out |-> "more", vehicle |-> NoVehicle, after |-> page.pagination.endCursor]

\* `${city}, ${state}, USA`
CityStateQuery(c, st) == c \o ", " \o st \o ", USA"

NoGeo == [point |-> NoPoint, label |-> Undef, city |-> Undef, state |-> Undef]

\* A variant of geocodeStop that lets a stop without a geocoding result through.
geocodeStopLenient(stop, out) ==
    IF Truthy(stop.address) \/ (Truthy(stop.city) /\ Truthy(stop.state))
    THEN [called |-> TRUE,
          text |-> IF Truthy(stop.address) THEN stop.address
                   ELSE CityStateQuery(stop.city, stop.state),
          threw |-> out = "throw",
          message |-> IF out = "throw" THEN "Geocoding failed HTTP" ELSE Undef,
          value |-> IF out = "ok"
                    THEN [point |-> GeoTable(IF Truthy(stop.address) THEN stop.address
                                             ELSE CityStateQuery(stop.city, stop.state)),
                          label |-> IF Truthy(stop.address) THEN stop.address
                                    ELSE stop.city \o ", " \o stop.state,
                          city |-> IF Truthy(stop.address) THEN Undef ELSE stop.city,
                          state |-> IF Truthy(stop.address) THEN Undef ELSE stop.state]
                    ELSE NoGeo]
    ELSE [called |-> FALSE, text |-> Undef, threw |-> TRUE,
          message |-> "Stop must have either address or city+state",
          value |-> NoGeo]

\* geocodeStop on a stop, given what the geocoder does if it is called:
\* whether geocode was called and with what, and the value returned or the
\* Error thrown.
geocodeStop(stop, out) ==
    IF Truthy(stop.address)
    THEN [called |-> TRUE, text |-> stop.address,
          threw |-> out # "ok",
          message |-> IF out = "none" THEN "Cannot geocode address"
                      ELSE IF out = "throw" THEN "Geocoding failed HTTP" ELSE Undef,
          value |-> IF out = "ok"
                    THEN [point |-> GeoTable(stop.address), label |-> stop.address,
                          city |-> Undef, state |-> Undef]
                    ELSE NoGeo]
    ELSE IF Truthy(stop.city) /\ Truthy(stop.state)
    THEN [called |-> TRUE, text |-> CityStateQuery(stop.city, stop.state),
          threw |-> out # "ok",
          message |-> IF out = "none" THEN "Cannot geocode city/state"
                      ELSE IF out = "throw" THEN "Geocoding failed HTTP" ELSE Undef,
          value |-> IF out = "ok"
                    THEN [point |-> GeoTable(CityStateQuery(stop.city, stop.state)),
                          label |-> stop.city \o ", " \o stop.state,
                          city |-> stop.city, state |-> stop.state]
                    ELSE NoGeo]
    ELSE [called |-> FALSE, text |-> Undef, threw |-> TRUE,
          message |-> "Stop must have either address or city+state",
          value |-> NoGeo]

\* A variant of Arrival that counts every leg from the request time.
ArrivalFromRequestTime(t, durationSeconds) == now + durationSeconds * 1000

\* Line 485: new Date(currentTime.getTime() + durationSeconds * 1000)
Arrival(t, durationSeconds) == t + durationSeconds * 1000

\* A variant of Accumulate that keeps only the last leg's value.
AccumulateOverwrite(total, x) == x

\* Lines 482-483: total += x
Accumulate(total, x) == total + x

\* A variant of MakeLeg that starts every leg at the trip origin.
MakeLegFromTripOrigin(i, fromPoint, fromLabel, s, distanceKm, durationSeconds, arrival) ==
    [index |-> i,
     origin |-> [label |-> originLabel, lat |-> originPoint.lat, lng |-> originPoint.lng],
     destination |-> [label |-> s.label, city |-> s.city, state |-> s.state,
                      lat |-> s.point.lat, lng |-> s.point.lng],
     distanceKm |-> distanceKm,
     distanceMiles |-> kmToMiles(distanceKm),
     durationSeconds |-> durationSeconds,
     durationHuman |-> formatDuration(durationSeconds),
     arrivalIso |-> toISOString(arrival),
     mapsDirectionsUrl |-> buildDirectionsUrl(originPoint, s.point)]

\* Lines 488-508: the leg from the current point to stop i.
MakeLeg(i, fromPoint, fromLabel, s, distanceKm, durationSeconds, arrival) ==
    [index |-> i,
     origin |-> [label |-> fromLabel, lat |-> fromPoint.lat, lng |-> fromPoint.lng],
     destination |-> [label |-> s.label, city |-> s.city, state |-> s.state,
                      lat |-> s.point.lat, lng |-> s.point.lng],
     distanceKm |-> distanceKm,
     distanceMiles |-> kmToMiles(distanceKm),
     durationSeconds |-> durationSeconds,
     durationHuman |-> formatDuration(durationSeconds),
     arrivalIso |-> toISOString(arrival),
     mapsDirectionsUrl |-> buildDirectionsUrl(fromPoint, s.point)]

\* A variant of TotalMiles that adds up the legs' rounded miles.
TotalMilesSummed(totalKm, lgs) == Sum([i \in 1..Len(lgs) |-> lgs[i].distanceMiles])

\* Line 515: the miles total of the summary.
TotalMiles(totalKm, lgs) == kmToMiles(totalKm)

\* A variant of LegacyBlocks that flattens the first leg of any itinerary.
LegacyBlocksAlways(lgs) ==
    IF Len(lgs) >= 1
    THEN [eta |-> [distanceKm |-> lgs[1].distanceKm,
                   distanceMiles |-> lgs[1].distanceMiles,
                   durationSeconds |-> lgs[1].durationSeconds,
                   durationHuman |-> lgs[1].durationHuman,
                   arrivalIso |-> lgs[1].arrivalIso],
          destination |-> [city |-> lgs[1].destination.city,
                           state |-> lgs[1].destination.state,
                           lat |-> lgs[1].destination.lat,
                           lng |-> lgs[1].destination.lng]]
    ELSE << >>

\* Lines 544-560: the flattened single-stop blocks, or nothing.
LegacyBlocks(lgs) ==
    IF Len(lgs) = 1
    THEN [eta |-> [distanceKm |-> lgs[1].distanceKm,
                   distanceMiles |-> lgs[1].distanceMiles,
                   durationSeconds |-> lgs[1].durationSeconds,
                   durationHuman |-> lgs[1].durationHuman,
                   arrivalIso |-> lgs[1].arrivalIso],
          destination |-> [city |-> lgs[1].destination.city,
                           state |-> lgs[1].destination.state,
                           lat |-> lgs[1].destination.lat,
                           lng |-> lgs[1].destination.lng]]
    ELSE << >>

\* Lines 515-560: the success payload.
BuildResponse(lgs, totalKm, totalSeconds, finalTime) ==
    [mode |-> mode,
     truckNumber |-> truckNumber,
     vehicleName |-> truckName,
     vehicleLocation |-> vehicleLocation,
     origin |-> [label |-> originLabel, lat |-> originPoint.lat,
                 lng |-> originPoint.lng, mapsUrl |-> buildPointMapsUrl(originPoint)],
     legs |-> lgs,
     summary |-> [totalDistanceKm |-> totalKm,
                  totalDistanceMiles |-> TotalMiles(totalKm, lgs),
                  totalDurationSeconds |-> totalSeconds,
                  totalDurationHuman |-> formatDuration(totalSeconds),
                  finalArrivalIso |-> toISOString(finalTime),
                  mapsDirectionsUrl |->
                      buildMultiStopDirectionsUrl(originPoint,
                          [k \in 1..Len(stopGeos) |-> stopGeos[k].point])]]
    @@ LegacyBlocks(lgs)

\* ------------------------------------------------------ handleEta: actions

\* Lines 345-458 up to the first await: the early returns, the merge of the
\* parsed query, the stop list, and the choice of the origin path.
HandleStart ==
    /\ pc = "start"
    /\ UNCHANGED << inputVars, lookupVars, stopGeos, legVars, calls, parseVars, linkVars, findVars >>
    /\ UNCHANGED << originPoint, originLabel, vehicleLocation, truckName >>
    /\ IF req.method # "POST"
       THEN Respond(405, ErrorBody("Use POST")) /\ UNCHANGED << mergedVars, mode >>
       ELSE IF ~req.jsonOk
       THEN Respond(400, ErrorBody("Invalid JSON body")) /\ UNCHANGED << mergedVars, mode >>
       ELSE IF ~Truthy(token)
       THEN /\ Respond(500, ErrorBody("SAMSARA_API_TOKEN is not configured"))
            /\ UNCHANGED << mergedVars, mode >>
       ELSE LET m == MergeQuery(req.payload)
                st == BuildStops(req.payload, m.city, m.state)
            IN  /\ truckNumber' = m.truckNumber
                /\ city' = m.city
                /\ state' = m.state
                /\ originCity' = m.originCity
                /\ originState' = m.originState
                /\ stops' = st
                /\ IF Len(st) = 0
                   THEN Respond(400, ErrorBody("No destinations provided")) /\ mode' = mode
                   ELSE IF UseTruckPath(m.truckNumber, m.originCity, m.originState)
                   THEN mode' = "truck" /\ pc' = "findVehicle" /\ response' = response
                   ELSE IF ~Truthy(m.originCity) \/ ~Truthy(m.originState)
                   THEN /\ Respond(400, ErrorBody("originCity and originState are required for city-based routing"))
                        /\ mode' = mode
                   ELSE mode' = "city" /\ pc' = "geocodeOrigin" /\ response' = response

\* Lines 414-421 with findVehicleByTruckNumber (160-184): one page fetch.
FetchVehiclesPage ==
    /\ pc = "findVehicle"
    /\ UNCHANGED << inputVars, mergedVars, stopGeos, legVars, parseVars, linkVars, findVars >>
    /\ UNCHANGED << mode, originPoint, originLabel, vehicleLocation >>
    /\ \E page \in PageOutcomes :
        LET r == FindVehicleStep(truckNumber, page)
        IN  /\ HasMore(page) => pagesFetched + 1 < MaxPages
            /\ pagesFetched' = pagesFetched + 1
            /\ Called("vehicles", pagesFetched, r.out, after)
            /\ IF r.out = "throw"
               THEN /\ Respond(500, InternalError("HTTP error from Samsara"))
                    /\ UNCHANGED << vehicle, after, truckName >>
               ELSE IF r.out = "ok"
               THEN /\ vehicle' = r.vehicle
                    /\ truckName' = r.vehicle.name
                    /\ pc' = "gps"
                    /\ UNCHANGED << after, response >>
               ELSE IF r.out = "none"
               THEN /\ Respond(404, ErrorBody("Truck not found in Samsara"))
                    /\ after' = IF page.pagination.hasNextPage THEN r.after ELSE after
                    /\ UNCHANGED << vehicle, truckName >>
               ELSE /\ after' = r.after
                    /\ UNCHANGED << pc, response, vehicle, truckName >>

\* Lines 423-439 with getVehicleGpsById (187-195).
GetVehicleGps ==
    /\ pc = "gps"
    /\ UNCHANGED << inputVars, mergedVars, lookupVars, stopGeos, legVars, parseVars, linkVars, findVars >>
    /\ UNCHANGED << mode, truckName >>
    /\ \E g \in GpsOutcomes :
        /\ Called("gps", 0, IF g.kind = "gps" THEN "ok" ELSE g.kind, vehicle.id)
        /\ IF g.kind = "throw"
           THEN /\ Respond(500, InternalError("HTTP error from Samsara"))
                /\ UNCHANGED << originPoint, originLabel, vehicleLocation >>
           ELSE IF g.kind = "none"
           THEN /\ Respond(404, ErrorBody("No GPS data for truck"))
                /\ UNCHANGED << originPoint, originLabel, vehicleLocation >>
           ELSE /\ originPoint' = [lat |-> g.latitude, lng |-> g.longitude]
                /\ originLabel' = Coalesce(g.formattedLocation, "Truck current location")
                /\ vehicleLocation' =
                       [lat |-> g.latitude, lng |-> g.longitude,
                        formattedAddress |-> g.formattedLocation,
                        mapsUrl |-> buildPointMapsUrl(originPoint')]
                /\ pc' = "geocodeStops"
                /\ UNCHANGED response

\* Lines 449-457 with geocodeCityState (221-224) and geocode (198-219).
GeocodeOrigin ==
    /\ pc = "geocodeOrigin"
    /\ UNCHANGED << inputVars, mergedVars, lookupVars, stopGeos, legVars, parseVars, linkVars, findVars >>
    /\ UNCHANGED << mode, vehicleLocation, truckName >>
    /\ \E out \in GeoOutcomes :
        /\ Called("geocodeOrigin", 0, out, CityStateQuery(originCity, originState))
        /\ IF out = "throw"
           THEN /\ Respond(500, InternalError("Geocoding failed HTTP"))
                /\ UNCHANGED << originPoint, originLabel >>
           ELSE IF out = "none"
           THEN /\ Respond(400, ErrorBody("Cannot geocode origin"))
                /\ UNCHANGED << originPoint, originLabel >>
           ELSE /\ originPoint' = GeoTable(CityStateQuery(originCity, originState))
                /\ originLabel' = originCity \o ", " \o originState
                /\ pc' = "geocodeStops"
                /\ UNCHANGED response

\* Lines 461-474: one iteration of the geocoding loop; after the last stop the
\* leg loop's variables are initialised.
GeocodeStop ==
    /\ pc = "geocodeStops"
    /\ UNCHANGED << inputVars, mergedVars, originVars, lookupVars, parseVars, linkVars, findVars >>
    /\ UNCHANGED << legs, totalDistanceKm, totalDurationSeconds >>
    /\ \E out \in GeoOutcomes :
        LET k == Len(stopGeos)
            g == geocodeStop(At(stops, k), out)
        IN  /\ IF g.called
               THEN Called("geocodeStop", k, out, g.text)
               ELSE UNCHANGED calls
            /\ IF g.threw
               THEN /\ Respond(500, InternalError(g.message))
                    /\ UNCHANGED << stopGeos, currentPoint, currentLabel, currentTime >>
               ELSE /\ stopGeos' = Append(stopGeos, g.value)
                    /\ UNCHANGED response
                    /\ IF k + 1 < Len(stops)
                       THEN UNCHANGED << pc, currentPoint, currentLabel, currentTime >>
                       ELSE /\ pc' = "route"
                            /\ currentPoint' = originPoint
                            /\ currentLabel' = originLabel
                            /\ currentTime' = now

\* Lines 476-565 with routeEta (241-257): one iteration of the leg loop; the
\* last one assembles and returns the success response.
RouteLeg ==
    /\ pc = "route"
    /\ UNCHANGED << inputVars, mergedVars, originVars, lookupVars, stopGeos, parseVars, linkVars, findVars >>
    /\ \E r \in RouteOutcomes :
        LET i == Len(legs)
            s == At(stopGeos, i)
            distanceKm == MetresToKm(r.distance)
            durationSeconds == RoundSeconds(r.duration)
            arrival == Arrival(currentTime, durationSeconds)
        IN  /\ Called("route", i,
                      IF r.kind = "route" THEN "ok"
                      ELSE IF r.kind = "noroute" THEN "none" ELSE "throw",
                      [from |-> currentPoint, to |-> s.point,
                       distance |-> r.distance, duration |-> r.duration])
            /\ IF r.kind # "route"
               THEN /\ Respond(500, InternalError(IF r.kind = "noroute"
                                                  THEN "No route found from OSRM"
                                                  ELSE "OSRM failed HTTP"))
                    /\ UNCHANGED legVars
               ELSE /\ totalDistanceKm' = Accumulate(totalDistanceKm, distanceKm)
                    /\ totalDurationSeconds' = Accumulate(totalDurationSeconds, durationSeconds)
                    /\ currentTime' = arrival
                    /\ legs' = Append(legs, MakeLeg(i, currentPoint, currentLabel, s,
                                                    distanceKm, durationSeconds, arrival))
                    /\ currentPoint' = s.point
                    /\ currentLabel' = s.label
                    /\ IF i + 1 < Len(stopGeos)
                       THEN UNCHANGED << pc, response >>
                       ELSE Respond(200, BuildResponse(legs', totalDistanceKm',
                                                       totalDurationSeconds', currentTime'))

Next ==
    \/ HandleStart
    \/ FetchVehiclesPage
    \/ GetVehicleGps
    \/ GeocodeOrigin
    \/ GeocodeStop
    \/ RouteLeg

Spec == Init /\ [][Next]_vars

\* --------------------------------------------------- the parser on its own

InitParse ==
    /\ token = "samsara_api_token"
    /\ req = [method |-> "POST", jsonOk |-> TRUE, payload |-> NoPayload]
    /\ now = 0
    /\ pc = "idle"
    /\ LocalsInit
    /\ q \in ParserQueries
    /\ parsed = NullParsed
    /\ parseDone = FALSE
    /\ LinkIdle
    /\ FindIdle

Parse ==
    /\ ~parseDone
    /\ pc = "idle"
    /\ parsed' = parseFreeformQuery(q)
    /\ parseDone' = TRUE
    /\ UNCHANGED << inputVars, pc, mergedVars, originVars, lookupVars, stopGeos,
                    legVars, response, calls, q, linkVars, findVars >>

NextParse == Parse

SpecParse == InitParse /\ [][NextParse]_vars

\* ------------------------------------------- the route link builder on its own

\* The points handed to buildMultiStopDirectionsUrl.
LinkPoints ==
    { [lat |-> 32, lng |-> -96], [lat |-> 30, lng |-> -97], [lat |-> 41, lng |-> -87] }

LinkStopLists == UNION { [1..n -> LinkPoints] : n \in 0..MaxLinkStops }

InitPureLink ==
    /\ token = "samsara_api_token"
    /\ req = [method |-> "POST", jsonOk |-> TRUE, payload |-> NoPayload]
    /\ now = 0
    /\ pc = "link"
    /\ LocalsInit
    /\ q = << >> /\ parsed = NullParsed /\ parseDone = FALSE
    /\ linkOrigin \in LinkPoints
    /\ linkStops \in LinkStopLists
    /\ link = buildPointMapsUrl(NoPoint)
    /\ linkDone = FALSE
    /\ FindIdle

BuildLink ==
    /\ pc = "link"
    /\ ~linkDone
    /\ link' = buildMultiStopDirectionsUrl(linkOrigin, linkStops)
    /\ linkDone' = TRUE
    /\ UNCHANGED << inputVars, pc, mergedVars, originVars, lookupVars, stopGeos,
                    legVars, response, calls, parseVars, linkOrigin, linkStops,
                    findVars >>

\* The builder applied to any origin and list of points, and the handler, which
\* applies it to the origin and the stops' points (lines 517-518).
InitLink == Init \/ InitPureLink

NextLink == Next \/ BuildLink

SpecLink == InitLink /\ [][NextLink]_vars

\* ---------------------------------------------- the vehicle lookup on its own

\* The identifiers looked up.
LookupNumbers == {"A1", "5051", " "}

\* The directory: the chain of pages its cursors lead through. Every page but
\* the last announces the next one; a fetch that throws ends the chain.
Directories ==
    { d \in UNION { [1..n -> PageOutcomes] : n \in 1..MaxPages } :
        \A i \in 1..Len(d) : HasMore(d[i]) <=> i < Len(d) }

InitPureFind ==
    /\ token = "samsara_api_token"
    /\ req = [method |-> "POST", jsonOk |-> TRUE, payload |-> NoPayload]
    /\ now = 0
    /\ pc = "find"
    /\ LocalsInit
    /\ q = << >> /\ parsed = NullParsed /\ parseDone = FALSE
    /\ LinkIdle
    /\ dirNumber \in LookupNumbers
    /\ dirPages \in Directories
    /\ dirFetched = 0
    /\ dirResult = FindRunning

\* Lines 163-181: one iteration of the loop, on the page the cursor leads to.
FindPage ==
    /\ pc = "find"
    /\ dirResult.state = "running"
    /\ dirFetched < Len(dirPages)
    /\ LET r == FindVehicleStep(dirNumber, dirPages[dirFetched + 1])
       IN  /\ dirFetched' = dirFetched + 1
           /\ dirResult' =
                  IF r.out = "more" THEN dirResult
                  ELSE [state |-> IF r.out = "ok" THEN "found"
                                  ELSE IF r.out = "none" THEN "null" ELSE "threw",
                        vehicle |-> r.vehicle]
    /\ UNCHANGED << inputVars, pc, mergedVars, originVars, lookupVars, stopGeos,
                    legVars, response, calls, parseVars, linkVars,
                    dirNumber, dirPages >>

\* The lookup applied to any identifier and directory, and the handler, which
\* applies it to the merged vehicle identifier (lines 414-420).
InitFind == Init \/ InitPureFind

NextFind == Next \/ FindPage

\* Each fetch of a directory page comes back, with a page or with an error.
SpecFind ==
    InitFind /\ [][NextFind]_vars /\ WF_vars(FindPage) /\ WF_vars(FetchVehiclesPage)

\* ------------------------------------------------------------------ claims

Success == pc = "done" /\ response.status = 200

\* The request passed the early returns: a POST with a JSON body, token set.
WellFormed == req.method = "POST" /\ req.jsonOk /\ Truthy(token)

PointOf(place) == << place.lat, place.lng >>

SumOver(lgs, Field(_)) == Sum([i \in 1..Len(lgs) |-> Field(lgs[i])])

KmOf(leg) == leg.distanceKm
MilesOf(leg) == leg.distanceMiles
SecondsOf(leg) == leg.durationSeconds

\* What the stop descriptor resolves to when the geocoder answers.
ResolvedStop(stop) == geocodeStop(stop, "ok").value

RouteCalls == SelectSeq(calls, LAMBDA c : c.svc = "route")

\* C1: in a success response for n >= 1 stops there are exactly n legs, leg i
\* has index i, leg 0 starts at the resolved trip origin, leg i ends at the
\* point stop i resolved to (stops in the order given), and each leg starts
\* where the previous one ended.
C1_LegsChain ==
    Success =>
        LET L == response.body.legs
            n == Len(stops)
        IN  /\ n >= 1
            /\ Len(L) = n
            /\ \A i \in 1..n : L[i].index = i - 1
            /\ PointOf(L[1].origin) = PointOf(originPoint)
            /\ PointOf(L[1].origin) = PointOf(response.body.origin)
            /\ \A i \in 1..n : PointOf(L[i].destination) = PointOf(ResolvedStop(stops[i]).point)
            /\ \A i \in 1..(n - 1) : PointOf(L[i].destination) = PointOf(L[i + 1].origin)

\* C1 witness: a success response with two legs ending at different points.
C1_Witness ==
    /\ Success
    /\ Len(response.body.legs) >= 2
    /\ PointOf(response.body.legs[1].destination) # PointOf(response.body.legs[2].destination)
    /\ PointOf(response.body.legs[1].origin) # PointOf(response.body.legs[2].origin)

\* C2: in a success response the km total is the sum of the legs' km, the
\* seconds total is the sum of the legs' seconds, and leg i carries what the
\* router returned for (end of leg i-1 or trip origin, point of stop i).
C2_TotalsAreSums ==
    Success =>
        LET L == response.body.legs
            R == RouteCalls
        IN  /\ response.body.summary.totalDistanceKm = SumOver(L, KmOf)
            /\ response.body.summary.totalDurationSeconds = SumOver(L, SecondsOf)
            /\ Len(R) = Len(L)
            /\ \A i \in 1..Len(L) :
                /\ R[i].k = i - 1
                /\ PointOf(R[i].detail.from) =
                       (IF i = 1 THEN PointOf(originPoint) ELSE PointOf(stopGeos[i - 1].point))
                /\ PointOf(R[i].detail.to) = PointOf(stopGeos[i].point)
                /\ L[i].distanceKm * 100 = R[i].detail.distance
                /\ 2 * (L[i].durationSeconds * 10 - R[i].detail.duration) \in -9..10

\* C2 witness: a success response whose two legs differ in km and in seconds.
C2_Witness ==
    /\ Success
    /\ Len(response.body.legs) = 2
    /\ response.body.legs[1].distanceKm # response.body.legs[2].distanceKm
    /\ response.body.legs[1].durationSeconds # response.body.legs[2].durationSeconds
    /\ response.body.summary.totalDistanceKm > response.body.legs[2].distanceKm

\* C3: leg i arrives at the request time plus the seconds of legs 0..i, the
\* arrivals never decrease, and the final arrival is the last leg's arrival,
\* the request time plus the seconds total.
C3_ArrivalsCumulative ==
    Success =>
        LET L == response.body.legs
            n == Len(L)
        IN  /\ \A i \in 1..n :
                L[i].arrivalIso = toISOString(now + 1000 * SumOver(SubSeq(L, 1, i), SecondsOf))
            /\ \A i \in 1..(n - 1) :
                /\ L[i + 1].arrivalIso.iso = L[i].arrivalIso.iso + 1000 * L[i + 1].durationSeconds
                /\ L[i + 1].arrivalIso.iso >= L[i].arrivalIso.iso
            /\ response.body.summary.finalArrivalIso = L[n].arrivalIso
            /\ response.body.summary.finalArrivalIso =
                   toISOString(now + 1000 * response.body.summary.totalDurationSeconds)

\* C3 witness: a success response with two legs, the second arriving later.
C3_Witness ==
    /\ Success
    /\ Len(response.body.legs) = 2
    /\ response.body.legs[1].durationSeconds > 0
    /\ response.body.legs[2].arrivalIso.iso > response.body.legs[1].arrivalIso.iso

\* C4 as stated: in a success response the miles total is the sum of the
\* legs' miles.
C4_MilesTotalIsSum ==
    Success =>
        response.body.summary.totalDistanceMiles = SumOver(response.body.legs, MilesOf)

\* C4 amended: the miles total is the km total converted once (km x 0.621371
\* rounded to one decimal, halves up); it is the sum of the legs' miles when
\* there is one leg, and for n legs differs from that sum by at most
\* (n + 1) / 2 tenths of a mile.
C4_MilesTotalIsConvertedKm ==
    Success =>
        LET L == response.body.legs
            n == Len(L)
            t == response.body.summary.totalDistanceMiles
            km == response.body.summary.totalDistanceKm
            d == t - SumOver(L, MilesOf)
        IN  /\ t * 1000000 - km * 621371 \in -499999..500000
            /\ \A i \in 1..n :
                L[i].distanceMiles * 1000000 - L[i].distanceKm * 621371 \in -499999..500000
            /\ n = 1 => d = 0
            /\ 2 * d <= n + 1
            /\ 2 * d >= -(n + 1)

\* C4 witness: a success response whose miles total is not the sum of its
\* legs' miles.
C4_Witness ==
    /\ Success
    /\ Len(response.body.legs) >= 2
    /\ response.body.summary.totalDistanceMiles # SumOver(response.body.legs, MilesOf)

\* The parser's input as tokens, and the positions the claims speak of.
QueryTokens == Tokenize(q)
LeftmostDigit == findIndex([i \in 1..Len(QueryTokens) |-> HasDigit(QueryTokens[i])])
FirstTo == findIndex([i \in 1..Len(QueryTokens) |-> IsTo(QueryTokens[i])])

\* C5 as stated: with a digit token among at least 2 tokens, the vehicle is
\* the leftmost digit token; the destination tokens are those after "to" only
\* if "to" comes after the vehicle token and is not last, else those after the
\* vehicle token; 2 or more destination tokens give city (all but the last,
\* joined) and state (the last), fewer give a vehicle-only intent.
C5_DestinationTokens ==
    (parseDone /\ Len(QueryTokens) >= 2 /\ LeftmostDigit >= 0) =>
        LET tokens == QueryTokens
            n == Len(tokens)
            dest == IF FirstTo > LeftmostDigit /\ FirstTo < n - 1
                    THEN slice(tokens, FirstTo + 1, n)
                    ELSE slice(tokens, LeftmostDigit + 1, n)
            m == Len(dest)
        IN  /\ parsed.mode = "truck"
            /\ parsed.truckNumber = At(tokens, LeftmostDigit)
            /\ parsed.originCity = Undef /\ parsed.originState = Undef
            /\ m >= 2 => /\ parsed.state = At(dest, m - 1)
                         /\ parsed.city = join(slice(dest, 0, m - 1))
            /\ m < 2 => parsed.city = Undef /\ parsed.state = Undef

\* Structured request fields, all set, for the merge of an unparseable query.
StructuredSample ==
    [NoPayload EXCEPT !.truckNumber = "A1", !.city = "Austin", !.state = "TX",
                      !.originCity = "Chicago", !.originState = "IL"]

\* C6: without a digit token the parse is a city intent exactly when the
\* first "to" has at least 2 tokens before it and at least 2 after it, with
\* origin state = the token before "to", origin city = the tokens before
\* that, destination state = the last token, destination city = the tokens
\* between "to" and the last; every other shape and every input of fewer
\* than 2 tokens is null, and then the merge keeps the structured fields.
C6_CityBranch ==
    parseDone =>
        LET tokens == QueryTokens
            n == Len(tokens)
            t == FirstTo
            cityShape == n >= 2 /\ t >= 2 /\ n - t - 1 >= 2
        IN  /\ LeftmostDigit < 0 =>
                /\ parsed.mode = "city" <=> cityShape
                /\ cityShape =>
                     parsed = [mode |-> "city", truckNumber |-> Undef,
                               originCity |-> join(slice(tokens, 0, t - 1)),
                               originState |-> At(tokens, t - 1),
                               city |-> join(slice(tokens, t + 1, n - 1)),
                               state |-> At(tokens, n - 1)]
                /\ ~cityShape => parsed = NullParsed
            /\ n < 2 => parsed = NullParsed
            /\ parsed = NullParsed =>
                 MergeQuery([StructuredSample EXCEPT !.query = q]) =
                     [truckNumber |-> "A1", city |-> "Austin", state |-> "TX",
                      originCity |-> "Chicago", originState |-> "IL"]

\* C6 witness: a query of 2 + "to" + 2 tokens parsed as a city intent.
C6_Witness ==
    /\ parseDone
    /\ parsed.mode = "city"
    /\ parsed.originCity = "Dallas" /\ parsed.originState = "TX"
    /\ parsed.city = "Dallas" /\ parsed.state = "TX"

ExplicitList == req.payload.destinations
HasExplicitList == ExplicitList.isArray /\ Len(ExplicitList.items) > 0
HasSingleDestination == Truthy(city) /\ Truthy(state)

\* C7: with a non-empty explicit destinations list the stops are that list, in
\* its order, whatever the query or the city/state fields say; the single
\* city/state destination is used only without such a list; with neither the
\* answer is 400 and no collaborator was called.
C7_ExplicitListWins ==
    (WellFormed /\ pc # "start") =>
        /\ HasExplicitList => stops = ExplicitList.items
        /\ (~HasExplicitList /\ HasSingleDestination) =>
               stops = << [address |-> Undef, city |-> city, state |-> state] >>
        /\ (~HasExplicitList /\ ~HasSingleDestination) =>
               /\ stops = << >>
               /\ pc = "done" /\ response.status = 400 /\ calls = << >>
        /\ \A i \in 1..Len(calls) :
               calls[i].svc = "geocodeStop" =>
                   calls[i].detail = geocodeStop(At(stops, calls[i].k), "ok").text
        /\ (Success /\ HasExplicitList) =>
               /\ Len(response.body.legs) = Len(ExplicitList.items)
               /\ \A i \in 1..Len(ExplicitList.items) :
                    /\ response.body.legs[i].destination.label =
                           ResolvedStop(ExplicitList.items[i]).label
                    /\ PointOf(response.body.legs[i].destination) =
                           PointOf(ResolvedStop(ExplicitList.items[i]).point)

\* C7 witness: a success response for a request whose query parses to Dallas,
\* TX, whose city/state fields are set, and whose explicit list has two stops,
\* the first an address.
C7_Witness ==
    /\ Success
    /\ parseFreeformQuery(req.payload.query).city = "Dallas"
    /\ req.payload.city = "Austin" /\ req.payload.state = "TX"
    /\ Len(ExplicitList.items) = 2
    /\ Truthy(ExplicitList.items[1].address)
    /\ ~Truthy(ExplicitList.items[2].address)

CallsTo(svc) == SelectSeq(calls, LAMBDA c : c.svc = svc)

\* C8: the merge takes from the parse only what the parse produced; a vehicle
\* identifier (non-empty) after the merge sends the origin through the vehicle
\* path with mode "truck", whatever origin city/state there is; mode is "city"
\* only without a vehicle identifier.
C8_VehicleTakesPriority ==
    (WellFormed /\ pc # "start") =>
        LET pl == req.payload
            p == parseFreeformQuery(pl.query)
        IN  /\ truckNumber = (IF p.mode = "truck" THEN p.truckNumber ELSE pl.truckNumber)
            /\ originCity = (IF p.mode = "city" THEN p.originCity ELSE pl.originCity)
            /\ originState = (IF p.mode = "city" THEN p.originState ELSE pl.originState)
            /\ city = (IF p.city # Undef THEN p.city ELSE pl.city)
            /\ state = (IF p.state # Undef THEN p.state ELSE pl.state)
            /\ (Len(stops) > 0 /\ Truthy(truckNumber)) =>
                   /\ mode = "truck"
                   /\ Len(CallsTo("geocodeOrigin")) = 0
                   /\ pc \in {"findVehicle", "gps", "geocodeStops", "route", "done"}
                   /\ pc \in {"geocodeStops", "route"} =>
                          /\ Len(CallsTo("gps")) = 1
                          /\ PointOf(originPoint) = PointOf(vehicleLocation)
            /\ mode = "city" =>
                   /\ ~Truthy(truckNumber)
                   /\ Len(CallsTo("vehicles")) = 0 /\ Len(CallsTo("gps")) = 0
            /\ Success =>
                   /\ response.body.mode = mode
                   /\ response.body.mode = "truck" <=> Truthy(truckNumber)
                   /\ response.body.mode = "city" <=> ~Truthy(truckNumber)

\* C8 witness: a success response in mode "truck" for a request whose query
\* parsed in city mode and which carried a structured vehicle identifier.
C8_Witness ==
    /\ Success
    /\ parseFreeformQuery(req.payload.query).mode = "city"
    /\ req.payload.truckNumber = "A1"
    /\ Truthy(originCity) /\ Truthy(originState)
    /\ response.body.mode = "truck"

OriginResolved ==
    \E i \in 1..Len(calls) :
        calls[i].svc \in {"gps", "geocodeOrigin"} /\ calls[i].out = "ok"

\* The request ended at a stop that has neither an address nor a complete
\* city+state pair, or whose geocoding returned no result.
StopResolutionFailed ==
    /\ pc = "done"
    /\ OriginResolved
    /\ Len(stopGeos) < Len(stops)
    /\ LET s == At(stops, Len(stopGeos))
           last == calls[Len(calls)]
       IN  \/ /\ ~Truthy(s.address)
              /\ ~(Truthy(s.city) /\ Truthy(s.state))
              /\ last.out = "ok"
           \/ /\ last.svc = "geocodeStop"
              /\ last.out = "none"

\* C9 as stated: a stop that cannot be resolved (no address and no complete
\* city+state, or no geocoding result) ends the request with the bad-input
\* status, as an origin that cannot be geocoded does.
C9_StopFailureIsBadInput ==
    StopResolutionFailed => response.status = 400

Rank(c) ==
    CASE c.svc = "vehicles" -> 1
      [] c.svc = "gps" -> 2
      [] c.svc = "geocodeOrigin" -> 2
      [] c.svc = "geocodeStop" -> 3
      [] c.svc = "route" -> 4

OkCallsTo(svc) == SelectSeq(calls, LAMBDA c : c.svc = svc /\ c.out = "ok")

\* C10: the collaborator calls are made in the order vehicle pages, GPS (or
\* origin geocode), geocode of stops 0..n-1, route of legs 0..n-1, each once;
\* a call that fails or returns nothing is the last call and ends the request
\* with an error; an error payload has no legs and no summary, and a payload
\* has legs only if every stop was geocoded and every leg routed.
C10_FailFast ==
    LET n == Len(calls)
    IN  /\ \A i \in 1..n, j \in 1..n :
             i < j => /\ Rank(calls[i]) <= Rank(calls[j])
                      /\ Rank(calls[i]) = Rank(calls[j]) => calls[i].svc = calls[j].svc
        /\ \A i \in 1..n :
             calls[i].k = Len(SelectSeq(SubSeq(calls, 1, i - 1),
                                        LAMBDA c : c.svc = calls[i].svc))
        /\ Len(CallsTo("gps")) <= 1 /\ Len(CallsTo("geocodeOrigin")) <= 1
        /\ Len(CallsTo("geocodeStop")) <= Len(stops)
        /\ Len(CallsTo("route")) <= Len(stops)
        /\ \A i \in 1..(n - 1) : calls[i].out \in {"ok", "more"}
        /\ (n > 0 /\ calls[n].out \in {"none", "throw"}) =>
               pc = "done" /\ response.status \in {400, 404, 500}
        /\ Len(CallsTo("gps")) > 0 => Len(OkCallsTo("vehicles")) = 1
        /\ Len(CallsTo("geocodeStop")) > 0 => OriginResolved
        /\ Len(CallsTo("route")) > 0 => Len(OkCallsTo("geocodeStop")) = Len(stops)
        /\ (pc = "done" /\ response.status # 200) =>
               /\ "legs" \notin DOMAIN response.body
               /\ "summary" \notin DOMAIN response.body
        /\ "legs" \in DOMAIN response.body =>
               /\ Success
               /\ Len(response.body.legs) = Len(stops)
               /\ Len(OkCallsTo("geocodeStop")) = Len(stops)
               /\ Len(OkCallsTo("route")) = Len(stops)

\* C10 witness: the router failed on the second leg after the first leg was
\* built, and the request ended with an error.
C10_Witness ==
    /\ pc = "done"
    /\ response.status = 500
    /\ Len(stops) = 2
    /\ Len(legs) = 1
    /\ calls[Len(calls)].svc = "route"
    /\ calls[Len(calls)].out \in {"none", "throw"}

\* C11: a success response carries the flattened eta and destination blocks
\* exactly when it has one leg; each field of eta (distanceKm, distanceMiles,
\* durationSeconds, durationHuman, arrivalIso) and of destination (city, state,
\* lat, lng) then equals that field of legs[0]; with two or more legs neither
\* block is there.
C11_LegacyIffSingleLeg ==
    Success =>
        LET b == response.body
            L == b.legs
        IN  /\ ("eta" \in DOMAIN b) <=> (Len(L) = 1)
            /\ ("destination" \in DOMAIN b) <=> (Len(L) = 1)
            /\ Len(L) = 1 =>
                   /\ DOMAIN b.eta = {"distanceKm", "distanceMiles", "durationSeconds",
                                      "durationHuman", "arrivalIso"}
                   /\ b.eta.distanceKm = L[1].distanceKm
                   /\ b.eta.distanceMiles = L[1].distanceMiles
                   /\ b.eta.durationSeconds = L[1].durationSeconds
                   /\ b.eta.durationHuman = L[1].durationHuman
                   /\ b.eta.arrivalIso = L[1].arrivalIso
                   /\ DOMAIN b.destination = {"city", "state", "lat", "lng"}
                   /\ b.destination.city = L[1].destination.city
                   /\ b.destination.state = L[1].destination.state
                   /\ b.destination.lat = L[1].destination.lat
                   /\ b.destination.lng = L[1].destination.lng

\* C11 witness: a single-leg success response to a city/state stop, carrying
\* both blocks, reached on a route of more than an hour.
C11_Witness ==
    /\ Success
    /\ Len(response.body.legs) = 1
    /\ "eta" \in DOMAIN response.body
    /\ "destination" \in DOMAIN response.body
    /\ response.body.destination.city = "Dallas"
    /\ Len(response.body.eta.durationHuman) = 2

\* A success response with two legs, which carries neither block.
C11_MultiLegSample ==
    /\ Success
    /\ Len(response.body.legs) = 2
    /\ "eta" \notin DOMAIN response.body
    /\ "destination" \notin DOMAIN response.body

\* decodeURIComponent on one piece, and on a text.
DecodePiece(c) ==
    CASE c = "%2C" -> ","
      [] c = "%7C" -> "|"
      [] OTHER -> c

decodeURIComponent(text) == [i \in 1..Len(text) |-> DecodePiece(text[i])]

\* String.prototype.split(sep) on a text.
RECURSIVE splitText(_, _)
splitText(text, sep) ==
    LET i == findIndex([k \in 1..Len(text) |-> text[k] = sep])
    IN  IF i < 0 THEN << text >>
        ELSE << slice(text, 0, i) >> \o splitText(slice(text, i + 1, Len(text)), sep)

\* The decoded values of the query parameters of a URL that have a given name.
ParamValues(url, name) ==
    LET ps == SelectSeq(url.params, LAMBDA pr : pr.name = name)
    IN  [i \in 1..Len(ps) |-> decodeURIComponent(ps[i].value)]

\* "lat,lng" of a point.
PairText(p) == << ToString(p.lat), ",", ToString(p.lng) >>

\* The URL is the driving-directions link from origin through points 0..N-2 to
\* point N-1 (from origin to itself when there are no points).
IsRouteLink(url, origin, points) ==
    LET N == Len(points)
    IN  /\ url.path = "https://www.google.com/maps/dir/"
        /\ ParamValues(url, "api") = << << "1" >> >>
        /\ ParamValues(url, "travelmode") = << << "driving" >> >>
        /\ ParamValues(url, "origin") = << PairText(origin) >>
        /\ N = 0 =>
               /\ ParamValues(url, "destination") = << PairText(origin) >>
               /\ url = buildDirectionsUrl(origin, origin)
        /\ N >= 1 => ParamValues(url, "destination") = << PairText(points[N]) >>
        /\ N <= 1 => ParamValues(url, "waypoints") = << >>
        /\ N >= 2 =>
               /\ Len(ParamValues(url, "waypoints")) = 1
               /\ splitText(ParamValues(url, "waypoints")[1], "|")
                      = [i \in 1..(N - 1) |-> PairText(points[i])]
        /\ Len(url.params) = (IF N >= 2 THEN 5 ELSE 4)

\* The point a leg ends at, and the point it starts from.
LegEnd(leg) == [lat |-> leg.destination.lat, lng |-> leg.destination.lng]
LegStart(leg) == [lat |-> leg.origin.lat, lng |-> leg.origin.lng]

\* C12: for N >= 1 points the link of buildMultiStopDirectionsUrl has the origin
\* as its origin parameter, the last point as its destination parameter and,
\* when N >= 2, one waypoints parameter whose value is points 0..N-2 in order
\* as "lat,lng" pairs separated by "|" (no waypoints parameter when N = 1); for
\* N = 0 it is buildDirectionsUrl(origin, origin). The link in the summary of
\* a success response is that link for the trip origin and the points the legs
\* end at, in the order of the legs.
C12_RouteLink ==
    /\ (pc = "link" /\ linkDone) => IsRouteLink(link, linkOrigin, linkStops)
    /\ Success =>
           LET L == response.body.legs
           IN  /\ IsRouteLink(response.body.summary.mapsDirectionsUrl,
                              LegStart(L[1]), [i \in 1..Len(L) |-> LegEnd(L[i])])
               /\ response.body.summary.mapsDirectionsUrl
                      = buildMultiStopDirectionsUrl(originPoint,
                            [i \in 1..Len(L) |-> LegEnd(L[i])])

\* C12 witness: the builder applied to three different points, giving a link
\* with a waypoints parameter.
C12_Witness ==
    /\ pc = "link" /\ linkDone
    /\ Len(linkStops) = 3
    /\ linkStops[1] # linkStops[2] /\ linkStops[2] # linkStops[3]
    /\ linkStops[1] # linkStops[3]
    /\ Len(ParamValues(link, "waypoints")) = 1

\* The builder applied to no point at all.
C12_NoStopSample ==
    /\ pc = "link" /\ linkDone
    /\ Len(linkStops) = 0

\* A success response of two legs to different points, with its summary link.
C12_HandlerSample ==
    /\ Success
    /\ Len(response.body.legs) = 2
    /\ LegEnd(response.body.legs[1]) # LegEnd(response.body.legs[2])
    /\ Len(ParamValues(response.body.summary.mapsDirectionsUrl, "waypoints")) = 1

\* The vehicle's name, trimmed and lower-cased, is the identifier's.
Matches(v, tn) == NormName(v.name) = NormName(tn)

PageMatches(page, tn) ==
    ~page.throws /\ \E j \in 1..Len(page.vehicles) : Matches(page.vehicles[j], tn)

\* The pages of the directory that hold a match (1-based).
MatchPages == { i \in 1..Len(dirPages) : PageMatches(dirPages[i], dirNumber) }

\* The first match of a page that has one.
FirstMatchOf(page, tn) ==
    LET j == CHOOSE k \in 1..Len(page.vehicles) :
                 /\ Matches(page.vehicles[k], tn)
                 /\ \A m \in 1..(k - 1) : ~Matches(page.vehicles[m], tn)
    IN  page.vehicles[j]

FindFinished == pc = "find" /\ dirResult.state # "running"

\* What the lookup on its own has returned, against the whole directory.
FindIsFirstMatch ==
    /\ pc = "find" => dirFetched <= Len(dirPages)
    /\ (pc = "find" /\ dirResult.state = "running") => dirFetched < Len(dirPages)
    /\ FindFinished =>
           /\ dirResult.state = "found" <=> MatchPages # {}
           /\ dirResult.state = "found" =>
                  LET i == CHOOSE k \in MatchPages : \A m \in MatchPages : k <= m
                      v == FirstMatchOf(dirPages[i], dirNumber)
                  IN  /\ dirFetched = i
                      /\ dirResult.vehicle.id = v.id
                      /\ dirResult.vehicle.name = (IF v.name # Undef THEN v.name ELSE dirNumber)
                      /\ Matches(dirResult.vehicle, dirNumber)
           /\ dirResult.state = "null" =>
                  /\ MatchPages = {}
                  /\ dirFetched = Len(dirPages)
                  /\ \A i \in 1..Len(dirPages) : ~dirPages[i].throws
           /\ dirResult.state = "threw" =>
                  /\ MatchPages = {}
                  /\ dirFetched = Len(dirPages)
                  /\ dirPages[Len(dirPages)].throws

\* What the handler does with the lookup's answer.
FindInHandler ==
    /\ pc \notin {"find", "link", "idle"} =>
           /\ Len(CallsTo("vehicles")) = pagesFetched
           /\ pagesFetched <= MaxPages
           /\ vehicle # NoVehicle =>
                  /\ Matches(vehicle, truckNumber)
                  /\ calls[pagesFetched].out = "ok"
                  /\ truckName = vehicle.name
           /\ \A i \in 1..Len(calls) :
                  (calls[i].svc = "vehicles" /\ calls[i].out \in {"ok", "none", "throw"})
                      => i = pagesFetched
    /\ (pc = "done" /\ Len(calls) > 0 /\ calls[Len(calls)].svc = "vehicles"
          /\ calls[Len(calls)].out = "none") =>
           /\ response.status = 404
           /\ response.body = ErrorBody("Truck not found in Samsara")
           /\ vehicle = NoVehicle
           /\ \A i \in 1..Len(calls) : calls[i].svc = "vehicles"
    /\ (pc = "done" /\ response.status = 404 /\ vehicle = NoVehicle) =>
           /\ Len(calls) > 0
           /\ calls[Len(calls)].svc = "vehicles" /\ calls[Len(calls)].out = "none"

\* C13: on any finite chain of pages findVehicleByTruckNumber comes to an end
\* (and so does the handler's wait for it); it returns the first vehicle, in
\* page order and then in-page order, whose trimmed lower-cased name is the
\* trimmed lower-cased identifier, having fetched the pages up to the one with
\* that match and none after; it returns null only when no page of the
\* directory holds a match, and the handler then answers 404 having called
\* nothing but the directory.
C13_LookupPaging ==
    /\ []FindIsFirstMatch
    /\ []FindInHandler
    /\ (pc = "find") ~> FindFinished
    /\ (pc = "findVehicle") ~> (pc # "findVehicle")

\* C13 witness: the match is on the second page, behind a page without one,
\* the page holds two matching vehicles, and it announces a further page that
\* was never fetched.
C13_Witness ==
    /\ FindFinished
    /\ dirResult.state = "found"
    /\ Len(dirPages) >= 2
    /\ dirFetched = 2
    /\ Len(dirPages[1].vehicles) > 0
    /\ dirResult.vehicle.id = "v2"
    /\ \E j \in 1..Len(dirPages[2].vehicles) : dirPages[2].vehicles[j].id = "v3"

\* The lookup came back with null after the last page.
C13_NotFoundSample ==
    /\ FindFinished
    /\ dirResult.state = "null"
    /\ dirFetched = Len(dirPages)
    /\ Len(dirPages) >= 2

\* The handler answered 404 after a second page without a match.
C13_HandlerSample ==
    /\ pc = "done"
    /\ response.status = 404
    /\ pagesFetched = 2
    /\ Len(calls) = 2

====
